---- MODULE Spec2Model ----
(***************************************************************************)
(* chainsaw: the hunting orchestrator (src/src/hunt.rs), the EVTX match    *)
(* engine (src/src/file/evtx.rs), the file loader (src/src/file/mod.rs)    *)
(* and the lazy search iterator (src/src/search.rs).                       *)
(*                                                                         *)
(* A run builds a Hunter or a Searcher from its builder, then is either    *)
(* one call of Hunter::hunt on one file or one traversal of the iterator   *)
(* returned by Searcher::search on one file.  The records                  *)
(* of the file are drawn one at a time, one loop iteration per step.       *)
(* Hunter::hunt is carried out twice side by side on the same records,     *)
(* the two executions differing only in the iteration order of the         *)
(* HashMap of each filter clause.                                          *)
(*                                                                         *)
(* MainSpec is main() (src/src/main.rs): the hunt command loads the rules, *)
(* builds the Hunter, enumerates the files, hunts each file and sorts the  *)
(* Detections; the search command enumerates the files, builds the         *)
(* Searcher and prints the items of each file's iterator.                  *)
(*                                                                         *)
(* ReuseSpec is a caller of the library that builds one Hunter and calls   *)
(* Hunter::hunt on one file after another.                                 *)
(***************************************************************************)
EXTENDS Integers, Sequences, FiniteSets, TLC

VARIABLES mode, builder, hunter, searcher, order, order2, file, pc, consumed,
          detections, detections2, ret, ret2, evals, yielded,
          opts, rs, failed, files, fidx, cursor, calls

\* The state of main(): the options of the command line, the rules loaded
\* and the count of those that were not, the files enumerated, the index of
\* the file at hand and the records of it the iterator has consumed.
mainvars == <<opts, rs, failed, files, fidx, cursor>>

vars == <<mode, builder, hunter, searcher, order, order2, file, pc, consumed,
          detections, detections2, ret, ret2, evals, yielded, mainvars,
          calls>>

(***************************************************************************)
(* Bounds of the model.                                                    *)
(***************************************************************************)
\* Longest record stream of a file.
MaxRecords == 2
\* Timestamps and time bounds range over 0..MaxTime.
MaxTime == 3

(***************************************************************************)
(* Option<T>: None is the empty sequence, Some(x) the one-element one.     *)
(***************************************************************************)
None == <<>>
Some(x) == <<x>>

(***************************************************************************)
(* JSON / tau values.  A value is a number, a string or an object.         *)
(***************************************************************************)
JInt(n) == [t |-> "int", n |-> n, s |-> ""]
JStr(s) == [t |-> "str", n |-> 0, s |-> s]
JObj == [t |-> "obj", n |-> 0, s |-> ""]

Digit(d) ==
    CASE d = 0 -> "0" [] d = 1 -> "1" [] d = 2 -> "2" [] d = 3 -> "3"
      [] d = 4 -> "4" [] d = 5 -> "5" [] d = 6 -> "6" [] d = 7 -> "7"
      [] d = 8 -> "8" [] d = 9 -> "9"

RECURSIVE IntToStr(_)
IntToStr(n) ==
    IF n < 10 THEN Digit(n) ELSE IntToStr(n \div 10) \o Digit(n % 10)

\* Value::to_string(): Some for scalars (a number in decimal), None for an
\* object.
ValueToString(v) ==
    IF v.t = "int" THEN Some(IntToStr(v.n))
    ELSE IF v.t = "str" THEN Some(v.s)
    ELSE None

\* Document::find on the raw JSON tree: data maps each dotted path that
\* exists in the record to the value stored there.
Find(data, key) == IF key \in DOMAIN data THEN Some(data[key]) ELSE None

\* Wrapper::find: the key is looked up in the group's alias table and the
\* aliased concrete path is looked up in the raw record.
WrapperFind_Raw(fields, data, key) == Find(data, key)

WrapperFind_Fallthrough(fields, data, key) ==
    IF key \in DOMAIN fields THEN Find(data, fields[key])
    ELSE Find(data, key)

WrapperFind(fields, data, key) ==
    IF key \in DOMAIN fields THEN Find(data, fields[key]) ELSE None

\* A rule's tau predicate, an equality test on one field of the view it is
\* handed: found is what the view's find returns for the rule's field.
RuleMatches(rule, found) ==
    found # None /\ ValueToString(found[1]) = Some(rule.value)

(***************************************************************************)
(* Huntable::hits, the gate: the filter loop of one group.                 *)
(***************************************************************************)
\* The value a filter key is compared against: the match on k.as_str().
FilterLookup(data, k) ==
    IF k = "Event.System.EventID" THEN
        IF Find(data, k) # None THEN Find(data, k)
        ELSE Find(data, "Event.System.EventID.#text")
    ELSE IF k = "Event.System.Provider" THEN
        Find(data, "Event.System.Provider_attributes.Name")
    ELSE Find(data, k)

\* match (value.to_string(), v.as_value().to_string())
Compare(value, v) ==
    LET x == ValueToString(value)
        y == ValueToString(v)
    IN  x # None /\ y # None /\ x = y

\* for (k, v) in filter, the keys visited in the order keys; matched is the
\* flag as it stands when the loop is entered.
RECURSIVE FilterPairs_LastWins(_, _, _, _, _)
FilterPairs_LastWins(data, filter, keys, i, matched) ==
    IF i > Len(keys) THEN matched
    ELSE LET found == FilterLookup(data, keys[i])
         IN  FilterPairs_LastWins(data, filter, keys, i + 1,
                 found # None /\ Compare(found[1], filter[keys[i]]))

RECURSIVE FilterPairs(_, _, _, _, _)
FilterPairs(data, filter, keys, i, matched) ==
    IF i > Len(keys) THEN matched
    ELSE LET found == FilterLookup(data, keys[i])
         IN  IF found = None THEN FALSE
             ELSE IF ~Compare(found[1], filter[keys[i]]) THEN FALSE
             ELSE FilterPairs(data, filter, keys, i + 1, TRUE)

\* for filter in &group.filters { ...; if matched { break; } }
RECURSIVE FilterLoop(_, _, _, _, _)
FilterLoop(data, filters, gorder, j, matched) ==
    IF j > Len(filters) THEN matched
    ELSE LET m == FilterPairs(data, filters[j], gorder[j], 1, matched)
         IN  IF m THEN TRUE
             ELSE FilterLoop(data, filters, gorder, j + 1, m)

\* let mut matched = false; followed by the filter loop.
GroupMatched_InitTrue(data, group, gorder) ==
    FilterLoop(data, group.filters, gorder, 1, TRUE)

GroupMatched(data, group, gorder) ==
    FilterLoop(data, group.filters, gorder, 1, FALSE)

(***************************************************************************)
(* Huntable::hits, the tagging: the rule loop of one matched group.        *)
(***************************************************************************)
Hit(tag, group) == [tag |-> tag, group |-> group]

\* for rule in rules { ... } from rule r on, inside a matched group.
RECURSIVE GroupHits_Reversed(_, _, _, _, _)
GroupHits_Reversed(data, rules, mapping, group, r) ==
    IF r > Len(rules) THEN <<>>
    ELSE LET rest == GroupHits_Reversed(data, rules, mapping, group, r + 1)
         IN  IF rules[r].tag \in mapping.exclusions THEN rest
             ELSE IF RuleMatches(rules[r],
                         WrapperFind(group.fields, data, rules[r].field))
                  THEN rest \o <<Hit(rules[r].tag, Some(group.name))>>
             ELSE rest

RECURSIVE GroupHits_NoExclusions(_, _, _, _, _)
GroupHits_NoExclusions(data, rules, mapping, group, r) ==
    IF r > Len(rules) THEN <<>>
    ELSE LET rest ==
                 GroupHits_NoExclusions(data, rules, mapping, group, r + 1)
         IN  IF RuleMatches(rules[r],
                     WrapperFind(group.fields, data, rules[r].field))
             THEN <<Hit(rules[r].tag, Some(group.name))>> \o rest
             ELSE rest

RECURSIVE GroupHits_First(_, _, _, _, _)
GroupHits_First(data, rules, mapping, group, r) ==
    IF r > Len(rules) THEN <<>>
    ELSE IF rules[r].tag \in mapping.exclusions
    THEN GroupHits_First(data, rules, mapping, group, r + 1)
    ELSE IF RuleMatches(rules[r],
                WrapperFind(group.fields, data, rules[r].field))
    THEN <<Hit(rules[r].tag, Some(group.name))>>
    ELSE GroupHits_First(data, rules, mapping, group, r + 1)

RECURSIVE GroupHits(_, _, _, _, _)
GroupHits(data, rules, mapping, group, r) ==
    IF r > Len(rules) THEN <<>>
    ELSE LET rest == GroupHits(data, rules, mapping, group, r + 1)
         IN  IF rules[r].tag \in mapping.exclusions THEN rest
             ELSE IF RuleMatches(rules[r],
                         WrapperFind(group.fields, data, rules[r].field))
                  THEN <<Hit(rules[r].tag, Some(group.name))>> \o rest
             ELSE rest

\* The rules whose predicate the rule loop of a matched group evaluates.
GroupEvals(rules, mapping) ==
    {r \in 1..Len(rules) : rules[r].tag \notin mapping.exclusions}

\* for group in &mapping.groups { ... } from group g on; morder[g][j] is
\* the iteration order of the j-th filter clause of group g.
RECURSIVE MappedHits(_, _, _, _, _)
MappedHits(data, rules, mapping, morder, g) ==
    IF g > Len(mapping.groups) THEN <<>>
    ELSE (IF GroupMatched(data, mapping.groups[g], morder[g])
          THEN GroupHits(data, rules, mapping, mapping.groups[g], 1)
          ELSE <<>>)
         \o MappedHits(data, rules, mapping, morder, g + 1)

RECURSIVE UngatedHits_Grouped(_, _, _)
UngatedHits_Grouped(data, rules, r) ==
    IF r > Len(rules) THEN <<>>
    ELSE (IF RuleMatches(rules[r], Find(data, rules[r].field))
          THEN <<Hit(rules[r].tag, Some("default"))>>
          ELSE <<>>)
         \o UngatedHits_Grouped(data, rules, r + 1)

\* The None arm: every rule against the raw record.
RECURSIVE UngatedHits(_, _, _)
UngatedHits(data, rules, r) ==
    IF r > Len(rules) THEN <<>>
    ELSE (IF RuleMatches(rules[r], Find(data, rules[r].field))
          THEN <<Hit(rules[r].tag, None)>>
          ELSE <<>>)
         \o UngatedHits(data, rules, r + 1)

\* Huntable::hits(rules, mapping): mapping is an Option, the result too.
Hits(data, rules, mapping, morder) ==
    IF mapping # None
    THEN Some(MappedHits(data, rules, mapping[1], morder, 1))
    ELSE Some(UngatedHits(data, rules, 1))

(***************************************************************************)
(* Huntable::created and the time gates.                                   *)
(***************************************************************************)
EID == "Event.System.EventID"
PROV == "Event.System.Provider"
PROVN == "Event.System.Provider_attributes.Name"
TUSER == "Event.EventData.TargetUserName"
SUSER == "Event.EventData.SubjectUserName"
TIME == "Event.System.TimeCreated_attributes.SystemTime"

\* The text of instant n in the format "%Y-%m-%dT%H:%M:%S%.6fZ".
TimeString(n) == "2021-01-01T00:00:0" \o Digit(n) \o ".000000Z"

\* NaiveDateTime::parse_from_str
ParseFromStr(s) ==
    LET ns == {n \in 0..9 : TimeString(n) = s}
    IN  IF ns = {} THEN [k |-> "err", t |-> 0]
        ELSE [k |-> "ok", t |-> CHOOSE n \in ns : TRUE]

\* Huntable::created: indexing a missing key gives Null, as_str() of a
\* non-string gives None and unwrap() of None panics.
Created(data) ==
    LET f == Find(data, TIME)
    IN  IF f = None \/ f[1].t # "str" THEN [k |-> "panic", t |-> 0]
        ELSE ParseFromStr(f[1].s)

\* Hunter::hunt, the time gate: TRUE when the record is passed over.
HuntRejects_Inclusive(h, t) ==
    (h.from # None \/ h.to # None)
    /\ ((h.from # None /\ t < h.from[1]) \/ (h.to # None /\ t > h.to[1]))

HuntRejects(h, t) ==
    (h.from # None \/ h.to # None)
    /\ ((h.from # None /\ t <= h.from[1]) \/ (h.to # None /\ t >= h.to[1]))

\* HitsIter::next, the time gate.
SearchRejects(s, t) ==
    (s.from # None \/ s.to # None)
    /\ ((s.from # None /\ t <= s.from[1]) \/ (s.to # None /\ t >= s.to[1]))

(***************************************************************************)
(* Results and errors.  An error is the sequence of the parts of its       *)
(* message; a part may be the path of the file.                            *)
(***************************************************************************)
Running == [k |-> "running", e |-> <<>>]
Ok == [k |-> "ok", e |-> <<>>]
Err(parts) == [k |-> "err", e |-> parts]
Panic == [k |-> "panic", e |-> <<>>]

\* Reader::load: the extension decides, then the EVTX parser opens the
\* file; file.cause is the parser's error when it cannot.
ReaderLoad(f) ==
    IF f.ext = None THEN Err(<<"file type is not known">>)
    ELSE IF f.ext[1] # "evtx"
         THEN Err(<<"file type is not currently supported - ", f.ext[1]>>)
    ELSE IF f.cause # None THEN Err(f.cause[1])
    ELSE Ok

\* Searcher::search: parse_file, the failure wrapped with the path.
SearcherSearch(f) ==
    IF f.cause # None THEN Err(<<f.path, " - ">> \o f.cause[1]) ELSE Ok

(***************************************************************************)
(* Hunter::hunt, one iteration of the loop over the documents.             *)
(***************************************************************************)
Detections(hits, data, mapping, timestamp, pos) ==
    [hits |-> hits,
     kind |-> [kind |-> "individual",
               document |-> [kind |-> "evtx", data |-> data]],
     mapping |-> mapping,
     timestamp |-> timestamp,
     pos |-> pos]

\* for mapping in &self.inner.mappings { ... } from mapping m on: the
\* Detections pushed for one document.
RECURSIVE MappingLoop_PerHit(_, _, _, _, _, _)
MappingLoop_PerHit(h, ord, data, timestamp, pos, m) ==
    IF m > Len(h.mappings) THEN <<>>
    ELSE LET mapping == h.mappings[m]
             rest == MappingLoop_PerHit(h, ord, data, timestamp, pos, m + 1)
         IN  IF mapping.kind # "evtx" THEN rest
             ELSE LET hits == Hits(data, h.rules, Some(mapping), ord[m])[1]
                  IN  [i \in 1..Len(hits) |->
                          Detections(<<hits[i]>>, data, Some(mapping.name),
                                     timestamp, pos)] \o rest

RECURSIVE MappingLoop_KeepEmpty(_, _, _, _, _, _)
MappingLoop_KeepEmpty(h, ord, data, timestamp, pos, m) ==
    IF m > Len(h.mappings) THEN <<>>
    ELSE LET mapping == h.mappings[m]
             rest ==
                 MappingLoop_KeepEmpty(h, ord, data, timestamp, pos, m + 1)
         IN  IF mapping.kind # "evtx" THEN rest
             ELSE LET hits == Hits(data, h.rules, Some(mapping), ord[m])
                  IN  <<Detections(hits[1], data, Some(mapping.name),
                                   timestamp, pos)>> \o rest

RECURSIVE MappingLoop_AnyKind(_, _, _, _, _, _)
MappingLoop_AnyKind(h, ord, data, timestamp, pos, m) ==
    IF m > Len(h.mappings) THEN <<>>
    ELSE LET mapping == h.mappings[m]
             rest == MappingLoop_AnyKind(h, ord, data, timestamp, pos, m + 1)
             hits == Hits(data, h.rules, Some(mapping), ord[m])
         IN  IF hits = None \/ hits[1] = <<>> THEN rest
             ELSE <<Detections(hits[1], data, Some(mapping.name),
                               timestamp, pos)>> \o rest

RECURSIVE MappingLoop(_, _, _, _, _, _)
MappingLoop(h, ord, data, timestamp, pos, m) ==
    IF m > Len(h.mappings) THEN <<>>
    ELSE LET mapping == h.mappings[m]
             rest == MappingLoop(h, ord, data, timestamp, pos, m + 1)
         IN  IF mapping.kind # "evtx" THEN rest
             ELSE LET hits == Hits(data, h.rules, Some(mapping), ord[m])
                  IN  IF hits = None \/ hits[1] = <<>> THEN rest
                      ELSE <<Detections(hits[1], data, Some(mapping.name),
                                        timestamp, pos)>> \o rest

\* The ungated arm of the dispatch.
UngatedDispatch(h, data, timestamp, pos) ==
    LET hits == Hits(data, h.rules, None, <<>>)
    IN  IF hits = None \/ hits[1] = <<>> THEN <<>>
        ELSE <<Detections(hits[1], data, None, timestamp, pos)>>

\* The body of the loop for the document at position pos: what becomes of
\* the accumulated detections and whether the loop goes on.
HuntDocument(h, ord, item, pos, dets) ==
    IF item.kind = "corrupt"
    THEN IF h.skip_errors THEN [ret |-> Running, detections |-> dets]
         ELSE [ret |-> Err(<<"evtx record error">>), detections |-> dets]
    ELSE LET c == Created(item.data)
         IN  IF c.k = "panic" THEN [ret |-> Panic, detections |-> dets]
             ELSE IF c.k = "err"
             THEN IF h.skip_errors
                  THEN [ret |-> Running, detections |-> dets]
                  ELSE [ret |-> Err(<<"could not get timestamp - ",
                                      "Failed to parse datetime">>),
                        detections |-> dets]
             ELSE IF HuntRejects(h, c.t)
             THEN [ret |-> Running, detections |-> dets]
             ELSE IF h.mappings = <<>>
             THEN [ret |-> Running,
                   detections |->
                       dets \o UngatedDispatch(h, item.data, c.t, pos)]
             ELSE [ret |-> Running,
                   detections |->
                       dets \o MappingLoop(h, ord, item.data, c.t, pos, 1)]

\* TRUE when the document reaches the dispatch of Hunter::hunt.
Dispatched(h, item) ==
    /\ item.kind = "ok"
    /\ Created(item.data).k = "ok"
    /\ ~HuntRejects(h, Created(item.data).t)

\* The rule predicates Huntable::hits evaluates for a dispatched document:
\* <<pos, mapping, group, rule>>, mapping and group 0 in the ungated arm.
DocumentEvals(h, ord, item, pos) ==
    IF ~Dispatched(h, item) THEN {}
    ELSE IF h.mappings = <<>>
    THEN {<<pos, 0, 0, r>> : r \in 1..Len(h.rules)}
    ELSE UNION {
           UNION {
             IF h.mappings[m].kind = "evtx"
                /\ GroupMatched(item.data, h.mappings[m].groups[g], ord[m][g])
             THEN {<<pos, m, g, r>> : r \in GroupEvals(h.rules, h.mappings[m])}
             ELSE {}
             : g \in 1..Len(h.mappings[m].groups)}
           : m \in 1..Len(h.mappings)}

(***************************************************************************)
(* HitsIter::next, one iteration of its loop over the records.             *)
(***************************************************************************)
LowerChar(c) ==
    CASE c = "S" -> "s" [] c = "V" -> "v" [] c = "C" -> "c"
      [] c = "E" -> "e" [] c = "X" -> "x" [] c = "P" -> "p"
      [] OTHER -> c

\* str::to_lowercase on a text, a sequence of characters.
ToLowercase(text) == [i \in 1..Len(text) |-> LowerChar(text[i])]

\* str::contains
Contains(text, p) ==
    \E i \in 1..(Len(text) + 1) :
        /\ i + Len(p) - 1 <= Len(text)
        /\ SubSeq(text, i, i + Len(p) - 1) = p

\* Regex::is_match for a regular expression that is a literal, with or
\* without the (?i) flag.
IsMatch(re, text) ==
    IF re.ci THEN Contains(ToLowercase(text), ToLowercase(re.lit))
    ELSE Contains(text, re.lit)

\* The text filter on the serialised record: the regular expression if
\* there is one, else the pattern, else nothing matches.
Matches_PatternFirst(text, regex, pattern, ignore_case) ==
    IF pattern # None
    THEN IF ignore_case
         THEN Contains(ToLowercase(text), ToLowercase(pattern[1]))
         ELSE Contains(text, pattern[1])
    ELSE IF regex # None THEN IsMatch(regex[1], text)
    ELSE FALSE

Matches(text, regex, pattern, ignore_case) ==
    IF regex # None THEN IsMatch(regex[1], text)
    ELSE IF pattern # None
    THEN IF ignore_case
         THEN Contains(ToLowercase(text), ToLowercase(pattern[1]))
         ELSE Contains(text, pattern[1])
    ELSE FALSE

\* The event identifier of a record: EventID.#text unless it is null.
EventIdOf(data) ==
    IF Find(data, "Event.System.EventID.#text") = None
    THEN Find(data, EID)
    ELSE Find(data, "Event.System.EventID.#text")

EventIdDiffers_Never(found, e_id) == FALSE

\* event_id != e_id, a JSON value against a u32.
EventIdDiffers(found, e_id) ==
    ~(found # None /\ found[1].t = "int" /\ found[1].n = e_id)

\* The body of the while loop for the record at position pos: the record
\* is passed over, or an item is returned to the caller.
SearchDocument(s, item, pos) ==
    IF item.kind = "corrupt" THEN [flow |-> "continue", out |-> None]
    ELSE LET c == Created(item.data)
         IN  IF c.k = "panic" THEN [flow |-> "panic", out |-> None]
             ELSE IF c.k = "err"
             THEN IF s.skip_errors THEN [flow |-> "continue", out |-> None]
                  ELSE [flow |-> "return",
                        out |-> Some([k |-> "err", pos |-> pos,
                                      data |-> <<>>,
                                      e |-> <<"could not get timestamp - ",
                                              "Failed to parse datetime">>])]
             ELSE IF SearchRejects(s, c.t)
             THEN [flow |-> "continue", out |-> None]
             ELSE IF s.event_id # None
                     /\ EventIdDiffers(EventIdOf(item.data), s.event_id[1])
             THEN [flow |-> "continue", out |-> None]
             ELSE IF Matches(item.text, s.regex, s.pattern, s.ignore_case)
             THEN [flow |-> "return",
                   out |-> Some([k |-> "ok", pos |-> pos,
                                 data |-> item.data, e |-> <<>>])]
             ELSE [flow |-> "continue", out |-> None]

(***************************************************************************)
(* The inputs: records, files, rules, mappings and configurations.         *)
(***************************************************************************)
SvcText == <<"S", "v", "c">>
ExpText == <<"e", "x", "p">>

DLogon ==
    (EID :> JInt(4624)) @@ (PROVN :> JStr("Security"))
    @@ (TUSER :> JStr("SYSTEM")) @@ (SUSER :> JStr("admin"))
DFailed ==
    (EID :> JInt(4625)) @@ (PROVN :> JStr("Security"))
    @@ (TUSER :> JStr("SYSTEM")) @@ (SUSER :> JStr("admin"))
\* A string identifier, another provider and no target user.
DService ==
    (EID :> JStr("4624")) @@ (PROVN :> JStr("Service Control Manager"))
    @@ (SUSER :> JStr("SYSTEM"))
\* The records of the scenario: EventID and User at the top of the tree.
DScenario4624 == ("EventID" :> JInt(4624)) @@ ("User" :> JStr("SYSTEM"))
DScenario4625 == ("EventID" :> JInt(4625)) @@ ("User" :> JStr("SYSTEM"))

Record(data, text) == [kind |-> "ok", data |-> data, text |-> text]
Corrupt == [kind |-> "corrupt", data |-> <<>>, text |-> <<>>]
At(data, n) == data @@ (TIME :> JStr(TimeString(n)))

Items ==
    {Record(At(DLogon, n), SvcText) : n \in 0..MaxTime}
    \cup {Record(At(d, 1), ExpText) :
            d \in {DFailed, DService, DScenario4624, DScenario4625}}
    \cup {Record(DLogon @@ (TIME :> JStr("yesterday")), SvcText),
          Record(DLogon @@ (TIME :> JInt(1)), SvcText),
          Record(DLogon, SvcText),
          Corrupt}

Files ==
    {[path |-> "a.evtx", ext |-> Some("evtx"), cause |-> None],
     [path |-> "b.evtx", ext |-> Some("evtx"),
      cause |-> Some(<<"Failed to open file ", "b.evtx">>)],
     [path |-> "c.evtx", ext |-> Some("evtx"),
      cause |-> Some(<<"Invalid EVTX file header magic">>)],
     [path |-> "d.txt", ext |-> Some("txt"),
      cause |-> Some(<<"Invalid EVTX file header magic">>)],
     [path |-> "e", ext |-> None,
      cause |-> Some(<<"Invalid EVTX file header magic">>)]}

RSystem == [tag |-> "system_user", field |-> "User", value |-> "SYSTEM"]
RLogon == [tag |-> "logon", field |-> "EventID", value |-> "4624"]
\* A rule written against a concrete path of the raw record.
RRawLogon == [tag |-> "raw_logon", field |-> EID, value |-> "4624"]

GLogon ==
    [name |-> "logon",
     fields |-> ("User" :> TUSER) @@ ("EventID" :> EID),
     filters |-> <<(EID :> JInt(4624)) @@ (PROV :> JStr("Security")),
                   (EID :> JStr("4625"))>>]
GLogonId ==
    [name |-> "logon_id",
     fields |-> ("User" :> TUSER) @@ ("EventID" :> EID),
     filters |-> <<(EID :> JInt(4624))>>]
GSubject ==
    [name |-> "subject",
     fields |-> ("User" :> SUSER) @@ ("EventID" :> EID),
     filters |-> <<(PROV :> JStr("Security"))>>]
\* A group whose only clause has no equality test, and one with no clause.
GEmptyClause ==
    [name |-> "catchall",
     fields |-> ("User" :> TUSER) @@ ("EventID" :> EID),
     filters |-> <<<<>>>>]
GNoClause ==
    [name |-> "unfiltered",
     fields |-> ("User" :> TUSER) @@ ("EventID" :> EID),
     filters |-> <<>>]
\* The group of the scenario, and the same group with the user aliased.
GScenario ==
    [name |-> "scenario",
     fields |-> ("EventID" :> "System.EventID"),
     filters |-> <<("EventID" :> JInt(4624))>>]
GScenarioUser ==
    [name |-> "scenario",
     fields |-> ("EventID" :> "System.EventID") @@ ("User" :> "User"),
     filters |-> <<("EventID" :> JInt(4624))>>]

MFirst ==
    [name |-> "first", kind |-> "evtx", exclusions |-> {"system_user"},
     groups |-> <<GLogon, GSubject>>]
MSecond ==
    [name |-> "second", kind |-> "evtx", exclusions |-> {},
     groups |-> <<GSubject, GEmptyClause, GNoClause, GLogonId>>]
MJson ==
    [name |-> "json", kind |-> "json", exclusions |-> {},
     groups |-> <<GSubject>>]
MScenario ==
    [name |-> "scenario", kind |-> "evtx", exclusions |-> {},
     groups |-> <<GScenario>>]
MScenarioUser ==
    [name |-> "scenario", kind |-> "evtx", exclusions |-> {},
     groups |-> <<GScenarioUser>>]

Times == {None} \cup {Some(t) : t \in 0..MaxTime}

Hunter(mappings, rules, from, to, skip_errors) ==
    [mappings |-> mappings, rules |-> rules, from |-> from, to |-> to,
     skip_errors |-> skip_errors]

Hunters ==
    {Hunter(<<>>, <<RSystem, RRawLogon>>, f, t, TRUE) :
        f \in Times, t \in Times}
    \cup {Hunter(<<>>, <<RSystem, RRawLogon>>, None, None, FALSE)}
    \cup {Hunter(ms, <<RSystem, RLogon>>, None, None, s) :
            ms \in {<<MFirst, MJson, MSecond>>}, s \in BOOLEAN}
    \cup {Hunter(ms, <<RSystem>>, None, None, FALSE) :
            ms \in {<<MScenario>>, <<MScenarioUser>>}}
    \cup {Hunter(<<MJson>>, <<RSystem, RRawLogon>>, None, None, FALSE)}

Searcher(event_id, pattern, regex, from, to, ignore_case, skip_errors) ==
    [event_id |-> event_id, pattern |-> pattern, regex |-> regex,
     from |-> from, to |-> to, ignore_case |-> ignore_case,
     skip_errors |-> skip_errors]

Searchers ==
    {Searcher(None, Some(<<"s", "v">>), None, f, t, TRUE, TRUE) :
        f \in Times, t \in Times}
    \cup {Searcher(id, p, re, None, None, i, FALSE) :
            id \in {None, Some(4624)},
            p \in {None, Some(<<"s", "v">>), Some(<<"S", "V">>)},
            re \in {None, Some([lit |-> <<"e", "x">>, ci |-> FALSE]),
                    Some([lit |-> <<"s", "v">>, ci |-> FALSE])},
            i \in BOOLEAN}

\* The hunter and the searcher of a run that does not use it.
NoHunter == Hunter(<<>>, <<>>, None, None, FALSE)
NoSearcher == Searcher(None, None, None, None, None, FALSE, FALSE)

(***************************************************************************)
(* HunterBuilder::build and SearcherBuilder::build.                        *)
(***************************************************************************)
\* A mapping file on disk: it opens, reads and parses (k = "ok"), or it is
\* missing, unreadable, or not the YAML of a Mapping.
MappingFile(path, k, mapping) == [path |-> path, k |-> k, mapping |-> mapping]

GoodMappingFile(mapping) == MappingFile(mapping.name \o ".yml", "ok", mapping)

BadMappingFiles ==
    {MappingFile("missing.yml", "missing", <<>>),
     MappingFile("locked.yml", "unreadable", <<>>),
     MappingFile("broken.yml", "malformed", <<>>)}

HunterBuilder(mappings, rules, from, to, skip_errors) ==
    [mappings |-> mappings, rules |-> rules, from |-> from, to |-> to,
     skip_errors |-> skip_errors]

\* Option<bool>::unwrap_or_default
UnwrapOrDefault(o) == IF o = None THEN FALSE ELSE o[1]

\* for mapping in mappings { ... } from file i on: scratch, or the error of
\* the first file that does not open, read or parse.
RECURSIVE LoadMappings_SkipBad(_, _, _)
LoadMappings_SkipBad(paths, i, scratch) ==
    IF i > Len(paths) THEN [ret |-> Ok, scratch |-> scratch]
    ELSE IF paths[i].k # "ok"
    THEN LoadMappings_SkipBad(paths, i + 1, scratch)
    ELSE LoadMappings_SkipBad(paths, i + 1,
                              Append(scratch, paths[i].mapping))

RECURSIVE LoadMappings(_, _, _)
LoadMappings(paths, i, scratch) ==
    IF i > Len(paths) THEN [ret |-> Ok, scratch |-> scratch]
    ELSE IF paths[i].k = "missing"
    THEN [ret |-> Err(<<"No such file or directory">>), scratch |-> <<>>]
    ELSE IF paths[i].k = "unreadable"
    THEN [ret |-> Err(<<"stream did not contain valid UTF-8">>),
          scratch |-> <<>>]
    ELSE IF paths[i].k = "malformed"
    THEN [ret |-> Err(<<"invalid type">>), scratch |-> <<>>]
    ELSE LoadMappings(paths, i + 1, Append(scratch, paths[i].mapping))

\* HunterBuilder::build: the Hunter, or the error of a mapping file.
HunterBuilderBuild(b) ==
    LET loaded == IF b.mappings # None
                  THEN LoadMappings(b.mappings[1], 1, <<>>)
                  ELSE [ret |-> Ok, scratch |-> <<>>]
    IN  IF loaded.ret.k = "err"
        THEN [ret |-> loaded.ret, hunter |-> NoHunter]
        ELSE [ret |-> Ok,
              hunter |-> Hunter(loaded.scratch,
                                IF b.rules # None THEN b.rules[1] ELSE <<>>,
                                b.from, b.to,
                                UnwrapOrDefault(b.skip_errors))]

SearcherBuilder(event_id, pattern, regex, from, ignore_case, skip_errors, to) ==
    [event_id |-> event_id, pattern |-> pattern, regex |-> regex,
     from |-> from, ignore_case |-> ignore_case,
     skip_errors |-> skip_errors, to |-> to]

\* SearcherBuilder::build: always a Searcher.
SearcherBuilderBuild(b) ==
    [ret |-> Ok,
     searcher |-> Searcher(b.event_id, b.pattern, b.regex, b.from, b.to,
                           UnwrapOrDefault(b.ignore_case),
                           UnwrapOrDefault(b.skip_errors))]

\* The builders: one for each Hunter and Searcher above, builders left at
\* their defaults, and builders given a mapping file that does not load.
HunterBuilders ==
    {HunterBuilder(Some([m \in 1..Len(h.mappings) |->
                            GoodMappingFile(h.mappings[m])]),
                   Some(h.rules), h.from, h.to, Some(h.skip_errors)) :
        h \in Hunters}
    \cup {HunterBuilder(None, None, None, None, None)}
    \cup {HunterBuilder(Some(<<GoodMappingFile(MFirst), bad>>),
                        Some(<<RSystem, RLogon>>), None, None, Some(s)) :
            bad \in BadMappingFiles, s \in BOOLEAN}

SearcherBuilders ==
    {SearcherBuilder(s.event_id, s.pattern, s.regex, s.from,
                     Some(s.ignore_case), Some(s.skip_errors), s.to) :
        s \in Searchers}
    \cup {SearcherBuilder(None, Some(<<"s", "v">>), None, None, None, None,
                          None)}

(***************************************************************************)
(* The iteration orders of the filter clauses: a HashMap is visited in an  *)
(* order of its own, fixed as long as the map is not changed.              *)
(***************************************************************************)
Perms(S) ==
    {p \in [1..Cardinality(S) -> S] :
        \A i, j \in 1..Cardinality(S) : i # j => p[i] # p[j]}

FilterOrders(filters) ==
    {o \in [1..Len(filters) ->
              UNION {Perms(DOMAIN filters[j]) : j \in 1..Len(filters)}] :
        \A j \in 1..Len(filters) : o[j] \in Perms(DOMAIN filters[j])}

GroupOrders(groups) ==
    {o \in [1..Len(groups) ->
              UNION {FilterOrders(groups[g].filters) : g \in 1..Len(groups)}] :
        \A g \in 1..Len(groups) : o[g] \in FilterOrders(groups[g].filters)}

Orders(mappings) ==
    {o \in [1..Len(mappings) ->
              UNION {GroupOrders(mappings[m].groups) :
                       m \in 1..Len(mappings)}] :
        \A m \in 1..Len(mappings) : o[m] \in GroupOrders(mappings[m].groups)}

(***************************************************************************)
(* The state machine.                                                      *)
(***************************************************************************)
Idle == [k |-> "idle", e |-> <<>>]

\* The options of a run that does not go through main().
NoOpts == <<>>

Init ==
    /\ \/ /\ mode = "hunt"
          /\ builder \in HunterBuilders
       \/ /\ mode = "search"
          /\ builder \in SearcherBuilders
    /\ hunter = NoHunter
    /\ searcher = NoSearcher
    /\ order = <<>>
    /\ order2 = <<>>
    /\ file = None
    /\ pc = "new"
    /\ opts = NoOpts
    /\ rs = <<>>
    /\ failed = 0
    /\ files = <<>>
    /\ fidx = 0
    /\ cursor = 0
    /\ calls = <<>>
    /\ consumed = <<>>
    /\ detections = <<>>
    /\ detections2 = <<>>
    /\ ret = Idle
    /\ ret2 = Idle
    /\ evals = {}
    /\ yielded = <<>>

\* HunterBuilder::build; the HashMaps of the filter clauses get their
\* iteration orders when the mappings are deserialised.
HunterBuild ==
    /\ mode = "hunt"
    /\ pc = "new"
    /\ LET b == HunterBuilderBuild(builder)
       IN  IF b.ret.k = "ok"
           THEN /\ hunter' = b.hunter
                /\ order' \in Orders(b.hunter.mappings)
                /\ order2' \in Orders(b.hunter.mappings)
                /\ pc' = "idle"
                /\ UNCHANGED <<ret, ret2>>
           ELSE /\ pc' = "done"
                /\ ret' = b.ret
                /\ ret2' = b.ret
                /\ UNCHANGED <<hunter, order, order2>>
    /\ UNCHANGED <<mainvars, calls, mode, builder, searcher, file, consumed, detections,
                   detections2, evals, yielded>>

\* SearcherBuilder::build
SearcherBuild ==
    /\ mode = "search"
    /\ pc = "new"
    /\ LET b == SearcherBuilderBuild(builder)
       IN  IF b.ret.k = "ok"
           THEN searcher' = b.searcher /\ pc' = "idle" /\ UNCHANGED ret
           ELSE pc' = "done" /\ ret' = b.ret /\ UNCHANGED searcher
    /\ UNCHANGED <<mainvars, calls, mode, builder, hunter, order, order2, file, consumed,
                   detections, detections2, ret2, evals, yielded>>

\* Hunter::hunt is entered: let mut reader = Reader::load(file)?;
HuntLoad(h, f) == ReaderLoad(f)

HuntOpen ==
    /\ mode = "hunt"
    /\ pc = "idle"
    /\ \E f \in Files :
        /\ file' = Some(f)
        /\ IF HuntLoad(hunter, f).k = "ok"
           THEN pc' = "loop" /\ ret' = Running /\ ret2' = Running
           ELSE /\ pc' = "done"
                /\ ret' = HuntLoad(hunter, f)
                /\ ret2' = HuntLoad(hunter, f)
    /\ UNCHANGED <<mainvars, calls, mode, builder, hunter, searcher, order, order2, consumed,
                   detections, detections2, evals, yielded>>

\* One iteration of for document in reader.documents(), in each of the two
\* executions that has not returned.
HuntRecord ==
    /\ mode = "hunt"
    /\ pc = "loop"
    /\ Len(consumed) < MaxRecords
    /\ \E item \in Items :
        LET pos == Len(consumed) + 1
            a == IF ret.k = "running"
                 THEN HuntDocument(hunter, order, item, pos, detections)
                 ELSE [ret |-> ret, detections |-> detections]
            b == IF ret2.k = "running"
                 THEN HuntDocument(hunter, order2, item, pos, detections2)
                 ELSE [ret |-> ret2, detections |-> detections2]
        IN  /\ consumed' = Append(consumed, item)
            /\ detections' = a.detections
            /\ ret' = a.ret
            /\ detections2' = b.detections
            /\ ret2' = b.ret
            /\ evals' = IF ret.k = "running" /\ a.ret.k = "running"
                        THEN evals \cup DocumentEvals(hunter, order, item, pos)
                        ELSE evals
            /\ pc' = IF a.ret.k = "running" \/ b.ret.k = "running"
                     THEN "loop" ELSE "done"
    /\ UNCHANGED <<mainvars, calls, mode, builder, hunter, searcher, order, order2, file, yielded>>

\* The documents are exhausted: Ok(detections)
HuntEnd ==
    /\ mode = "hunt"
    /\ pc = "loop"
    /\ ret' = IF ret.k = "running" THEN Ok ELSE ret
    /\ ret2' = IF ret2.k = "running" THEN Ok ELSE ret2
    /\ pc' = "done"
    /\ UNCHANGED <<mainvars, calls, mode, builder, hunter, searcher, order, order2, file, consumed,
                   detections, detections2, evals, yielded>>

\* Searcher::search(file)
SearchOpen ==
    /\ mode = "search"
    /\ pc = "idle"
    /\ \E f \in Files :
        /\ file' = Some(f)
        /\ IF SearcherSearch(f).k = "ok"
           THEN pc' = "loop" /\ ret' = Running
           ELSE pc' = "done" /\ ret' = SearcherSearch(f)
    /\ UNCHANGED <<mainvars, calls, mode, builder, hunter, searcher, order, order2, consumed,
                   detections, detections2, ret2, evals, yielded>>

\* One iteration of while let Some(record) = self.it.next()
SearchRecord ==
    /\ mode = "search"
    /\ pc = "loop"
    /\ Len(consumed) < MaxRecords
    /\ \E item \in Items :
        LET d == SearchDocument(searcher, item, Len(consumed) + 1)
        IN  /\ consumed' = Append(consumed, item)
            /\ yielded' = IF d.flow = "return"
                          THEN Append(yielded, d.out[1]) ELSE yielded
            /\ ret' = IF d.flow = "panic" THEN Panic ELSE ret
            /\ pc' = IF d.flow = "panic" THEN "done" ELSE "loop"
    /\ UNCHANGED <<mainvars, calls, mode, builder, hunter, searcher, order, order2, file,
                   detections, detections2, ret2, evals>>

\* The record stream is exhausted: next() returns None.
SearchEnd ==
    /\ mode = "search"
    /\ pc = "loop"
    /\ ret' = Ok
    /\ pc' = "done"
    /\ UNCHANGED <<mainvars, calls, mode, builder, hunter, searcher, order, order2, file, consumed,
                   detections, detections2, ret2, evals, yielded>>

Next ==
    \/ HunterBuild
    \/ SearcherBuild
    \/ HuntOpen
    \/ HuntRecord
    \/ HuntEnd
    \/ SearchOpen
    \/ SearchRecord
    \/ SearchEnd

Spec == Init /\ [][Next]_vars

(***************************************************************************)
(* main(): the hunt command and the search command.                        *)
(***************************************************************************)
\* Most paths on a command line.
MaxFiles == 2

\* A rule file: load_rule gives its rules, or fails on it.
RuleFile(path, k, rules) == [path |-> path, k |-> k, rules |-> rules]

RuleFiles ==
    {<<RuleFile("system.yml", "ok", <<RSystem>>),
       RuleFile("logon.yml", "ok", <<RLogon>>)>>,
     <<RuleFile("system.yml", "ok", <<RSystem>>),
       RuleFile("raw.yml", "ok", <<RRawLogon>>)>>,
     <<RuleFile("broken.yml", "malformed", <<>>),
       RuleFile("raw.yml", "ok", <<RRawLogon>>)>>,
     <<RuleFile("broken.yml", "malformed", <<>>)>>}

\* load_rule(&RuleKind::Sigma, path)
LoadRule(f) ==
    IF f.k = "ok" THEN [ret |-> Ok, rules |-> f.rules]
    ELSE [ret |-> Err(<<"failed to load rule">>), rules |-> <<>>]

\* for file in WalkDir::new(path) { match load_rule(..) { .. } } from file i
\* on: the rules loaded and the count of the files that did not load.
RECURSIVE LoadRules(_, _, _, _)
LoadRules(paths, i, loaded, count) ==
    IF i > Len(paths) THEN [rs |-> loaded, failed |-> count]
    ELSE IF LoadRule(paths[i]).ret.k = "ok"
    THEN LoadRules(paths, i + 1, loaded \o LoadRule(paths[i]).rules, count)
    ELSE LoadRules(paths, i + 1, loaded, count + 1)

\* A log file with its records; chars is its path as a search pattern.
LogFile(path, chars, ext, cause, records) ==
    [path |-> path, chars |-> chars, ext |-> ext, cause |-> cause,
     records |-> records]

FileA ==
    LogFile("a.evtx", <<"a">>, Some("evtx"), None,
            <<Record(At(DLogon, 2), SvcText), Corrupt,
              Record(At(DFailed, 1), ExpText),
              Record(At(DLogon, 1), SvcText)>>)
FileB ==
    LogFile("b.evtx", <<"b">>, Some("evtx"), None,
            <<Record(At(DLogon, 0), SvcText),
              Record(DLogon @@ (TIME :> JStr("yesterday")), SvcText),
              Record(At(DService, 1), ExpText)>>)
\* A file every record of which decodes and has a timestamp.
FileC ==
    LogFile("c.evtx", <<"c">>, Some("evtx"), None,
            <<Record(At(DLogon, 1), SvcText),
              Record(At(DFailed, 1), ExpText)>>)
\* A file whose second record has no SystemTime.
FileP ==
    LogFile("p.evtx", <<"p">>, Some("evtx"), None,
            <<Record(At(DLogon, 3), SvcText), Record(DLogon, SvcText)>>)
FileD ==
    LogFile("d.txt", <<"d">>, Some("txt"),
            Some(<<"Invalid EVTX file header magic">>), <<>>)

\* A path of the command line: the files get_files finds under it, or the
\* error it fails with.
PathEntry(chars, result, found) ==
    [chars |-> chars, ret |-> result, found |-> found]

PathEntries ==
    {PathEntry(f.chars, Ok, <<f>>) : f \in {FileA, FileB, FileC, FileP, FileD}}
    \cup {PathEntry(<<"n">>, Err(<<"Invalid input path">>), <<>>)}

\* PathBuf::from(pattern): the path the pattern names.
PathBufFrom(pattern) ==
    IF \E e \in PathEntries : e.chars = pattern
    THEN CHOOSE e \in PathEntries : e.chars = pattern
    ELSE PathEntry(pattern, Err(<<"Invalid input path">>), <<>>)

\* for path in &paths { files.extend(get_files(path, &extension)?); } from
\* path i on.
RECURSIVE GetFiles(_, _, _)
GetFiles(paths, i, found) ==
    IF i > Len(paths) THEN [ret |-> Ok, files |-> found]
    ELSE IF paths[i].ret.k = "err"
    THEN [ret |-> paths[i].ret, files |-> <<>>]
    ELSE GetFiles(paths, i + 1, found \o paths[i].found)

PathLists ==
    UNION {[1..n -> PathEntries] : n \in 1..MaxFiles}

HuntOpts ==
    [cmd : {"hunt"}, rules : RuleFiles,
     mapping : {None, Some(<<GoodMappingFile(MSecond)>>),
                Some(<<GoodMappingFile(MFirst), GoodMappingFile(MSecond)>>)}
               \cup {Some(<<GoodMappingFile(MSecond), bad>>) :
                       bad \in BadMappingFiles},
     path : PathLists, skip_errors : BOOLEAN]

\* pattern is required unless regexp is given; with regexp the pattern, if
\* any, is the first path.
SearchOpts ==
    {o \in [cmd : {"search"},
            pattern : {None} \cup {Some(<<"s", "v">>)}
                      \cup {Some(e.chars) : e \in PathEntries},
            regexp : {None, Some([lit |-> <<"e", "x">>, ci |-> FALSE])},
            path : PathLists \cup {<<>>},
            ignore_case : {TRUE}, skip_errors : BOOLEAN] :
        /\ o.pattern # None \/ o.regexp # None
        /\ o.regexp = None <=> o.pattern = Some(<<"s", "v">>)
        /\ Len(o.path) + (IF o.regexp # None /\ o.pattern # None
                          THEN 1 ELSE 0) \in 1..MaxFiles}

\* Hunter::hunt(file) as a whole: the loop over the documents from
\* document i on.
RECURSIVE HuntLoop_Partial(_, _, _, _, _)
HuntLoop_Partial(h, ord, records, i, dets) ==
    IF i > Len(records) THEN [ret |-> Ok, detections |-> dets]
    ELSE LET d == HuntDocument(h, ord, records[i], i, dets)
         IN  IF d.ret.k = "running"
             THEN HuntLoop_Partial(h, ord, records, i + 1, d.detections)
             ELSE [ret |-> d.ret, detections |-> d.detections]

RECURSIVE HuntLoop(_, _, _, _, _)
HuntLoop(h, ord, records, i, dets) ==
    IF i > Len(records) THEN [ret |-> Ok, detections |-> dets]
    ELSE LET d == HuntDocument(h, ord, records[i], i, dets)
         IN  IF d.ret.k = "running"
             THEN HuntLoop(h, ord, records, i + 1, d.detections)
             ELSE [ret |-> d.ret, detections |-> <<>>]

\* Hunter::hunt as it would be if the Hunter kept the vector of the
\* detections between calls.
HuntFile_KeepsDetections(h, ord, f) ==
    IF HuntLoad(h, f).k # "ok"
    THEN [ret |-> HuntLoad(h, f), detections |-> <<>>]
    ELSE HuntLoop(h, ord, f.records, 1,
                  IF calls = <<>> THEN <<>>
                  ELSE calls[Len(calls)].detections)

HuntFile(h, ord, f) ==
    IF HuntLoad(h, f).k # "ok"
    THEN [ret |-> HuntLoad(h, f), detections |-> <<>>]
    ELSE HuntLoop(h, ord, f.records, 1, <<>>)

\* detections.sort_by(|x, y| x.timestamp.cmp(&y.timestamp)): a stable sort.
RECURSIVE SortByTimestamp(_)
SortByTimestamp(ds) ==
    IF ds = <<>> THEN <<>>
    ELSE LET x == Head(ds)
             rest == SortByTimestamp(Tail(ds))
         IN  SelectSeq(rest, LAMBDA y : y.timestamp < x.timestamp)
             \o <<x>>
             \o SelectSeq(rest, LAMBDA y : y.timestamp >= x.timestamp)

\* HitsIter::next as a whole, i records of the file consumed: the item it
\* returns, None at the end of the records, and the records consumed then.
RECURSIVE HitsIterNext(_, _, _)
HitsIterNext(s, records, i) ==
    IF i >= Len(records)
    THEN [flow |-> "return", out |-> None, cursor |-> i]
    ELSE LET d == SearchDocument(s, records[i + 1], i + 1)
         IN  IF d.flow = "continue" THEN HitsIterNext(s, records, i + 1)
             ELSE [flow |-> d.flow, out |-> d.out, cursor |-> i + 1]

\* A printed hit: the item of the iterator with the file it came from.
Printed(item, f) ==
    [k |-> item.k, pos |-> item.pos, data |-> item.data, e |-> item.e,
     file |-> f]

\* cs_print_yaml!(&hit) / cs_print_json!(&hit): the hit goes to the output.
Emit_SortedByTime(out, hit) ==
    SelectSeq(out, LAMBDA y : Created(y.data).t <= Created(hit.data).t)
    \o <<hit>>
    \o SelectSeq(out, LAMBDA y : Created(y.data).t > Created(hit.data).t)

Emit(out, hit) == Append(out, hit)

MainInit ==
    /\ opts \in HuntOpts \cup SearchOpts
    /\ mode = opts.cmd
    /\ builder = IF opts.cmd = "hunt"
                 THEN HunterBuilder(None, None, None, None, None)
                 ELSE SearcherBuilder(None, None, None, None, None, None,
                                      None)
    /\ hunter = NoHunter
    /\ searcher = NoSearcher
    /\ order = <<>>
    /\ order2 = <<>>
    /\ file = None
    /\ pc = "start"
    /\ consumed = <<>>
    /\ detections = <<>>
    /\ detections2 = <<>>
    /\ ret = Running
    /\ ret2 = Running
    /\ evals = {}
    /\ yielded = <<>>
    /\ rs = <<>>
    /\ failed = 0
    /\ files = <<>>
    /\ fidx = 0
    /\ cursor = 0
    /\ calls = <<>>

\* The hunt command loads the rules: a file that does not load is counted.
MainLoadRules ==
    /\ mode = "hunt"
    /\ pc = "start"
    /\ rs' = LoadRules(opts.rules, 1, <<>>, 0).rs
    /\ failed' = LoadRules(opts.rules, 1, <<>>, 0).failed
    /\ pc' = "rules"
    /\ UNCHANGED <<mode, builder, hunter, searcher, order, order2, file,
                   consumed, detections, detections2, ret, ret2, evals,
                   yielded, opts, calls, files, fidx, cursor>>

\* Hunter::builder().rules(rules).mappings(mapping.unwrap_or_default())
\*     .skip_errors(skip_errors) ... .build()?
MainHunterBuild ==
    /\ mode = "hunt"
    /\ pc = "rules"
    /\ LET b == HunterBuilder(
                    Some(IF opts.mapping # None THEN opts.mapping[1]
                         ELSE <<>>),
                    Some(rs), None, None, Some(opts.skip_errors))
       IN  /\ builder' = b
           /\ IF HunterBuilderBuild(b).ret.k = "ok"
              THEN /\ hunter' = HunterBuilderBuild(b).hunter
                   /\ order' \in Orders(HunterBuilderBuild(b).hunter.mappings)
                   /\ order2' = order'
                   /\ pc' = "built"
                   /\ UNCHANGED <<ret, ret2>>
              ELSE /\ ret' = HunterBuilderBuild(b).ret
                   /\ ret2' = ret'
                   /\ pc' = "done"
                   /\ UNCHANGED <<hunter, order, order2>>
    /\ UNCHANGED <<mode, searcher, file, consumed, detections, detections2,
                   evals, yielded, opts, calls, rs, failed, files, fidx, cursor>>

\* The paths of the command line, the pattern first when it is a path.
MainPaths ==
    IF opts.cmd = "search" /\ opts.regexp # None /\ opts.pattern # None
    THEN <<PathBufFrom(opts.pattern[1])>> \o opts.path
    ELSE opts.path

\* The files are enumerated: after the build in the hunt command, before
\* it in the search command.
MainGetFiles ==
    /\ \/ mode = "hunt" /\ pc = "built"
       \/ mode = "search" /\ pc = "start"
    /\ IF GetFiles(MainPaths, 1, <<>>).ret.k = "ok"
       THEN /\ files' = GetFiles(MainPaths, 1, <<>>).files
            /\ fidx' = 1
            /\ pc' = "files"
            /\ UNCHANGED <<ret, ret2>>
       ELSE /\ ret' = GetFiles(MainPaths, 1, <<>>).ret
            /\ ret2' = ret'
            /\ pc' = "done"
            /\ UNCHANGED <<files, fidx>>
    /\ UNCHANGED <<mode, builder, hunter, searcher, order, order2, file,
                   consumed, detections, detections2, evals, yielded, opts, calls,
                   rs, failed, cursor>>

\* detections.extend(hunter.hunt(file)?)
MainHuntFile ==
    /\ mode = "hunt"
    /\ pc = "files"
    /\ fidx <= Len(files)
    /\ LET h == HuntFile(hunter, order, files[fidx])
       IN  /\ file' = Some(files[fidx])
           /\ IF h.ret.k = "ok"
              THEN /\ detections' = detections \o h.detections
                   /\ fidx' = fidx + 1
                   /\ UNCHANGED <<ret, ret2, pc>>
              ELSE /\ ret' = h.ret
                   /\ ret2' = ret'
                   /\ pc' = "done"
                   /\ UNCHANGED <<detections, fidx>>
    /\ UNCHANGED <<mode, builder, hunter, searcher, order, order2, consumed,
                   detections2, evals, yielded, opts, calls, rs, failed, files,
                   cursor>>

\* The files are done: the detections are sorted and rendered, by
\* cli::print_json or cli::print_detections.
MainHuntPrint ==
    /\ mode = "hunt"
    /\ pc = "files"
    /\ fidx > Len(files)
    /\ detections' = SortByTimestamp(detections)
    /\ detections2' = detections
    /\ yielded' = SortByTimestamp(detections)
    /\ ret' = Ok
    /\ ret2' = Ok
    /\ pc' = "done"
    /\ UNCHANGED <<mode, builder, hunter, searcher, order, order2, file,
                   consumed, evals, opts, calls, rs, failed, files, fidx,
                   cursor>>

\* Searcher::builder().ignore_case(..).skip_errors(..) ... .build()?
MainSearcherBuild ==
    /\ mode = "search"
    /\ pc = "files"
    /\ LET b == SearcherBuilder(None, opts.pattern, opts.regexp, None,
                                Some(opts.ignore_case),
                                Some(opts.skip_errors), None)
       IN  /\ builder' = b
           /\ IF SearcherBuilderBuild(b).ret.k = "ok"
              THEN /\ searcher' = SearcherBuilderBuild(b).searcher
                   /\ pc' = "built"
                   /\ UNCHANGED <<ret, ret2>>
              ELSE /\ ret' = SearcherBuilderBuild(b).ret
                   /\ ret2' = ret'
                   /\ pc' = "done"
                   /\ UNCHANGED searcher
    /\ UNCHANGED <<mode, hunter, order, order2, file, consumed, detections,
                   detections2, evals, yielded, opts, calls, rs, failed, files,
                   fidx, cursor>>

\* for file in &files { searcher.search(file)? ... }: the next file is
\* opened.
MainSearchOpen ==
    /\ mode = "search"
    /\ pc = "built"
    /\ file = None
    /\ fidx <= Len(files)
    /\ IF SearcherSearch(files[fidx]).k = "ok"
       THEN /\ file' = Some(files[fidx])
            /\ cursor' = 0
            /\ UNCHANGED <<ret, ret2, pc>>
       ELSE /\ ret' = SearcherSearch(files[fidx])
            /\ ret2' = ret'
            /\ pc' = "done"
            /\ UNCHANGED <<file, cursor>>
    /\ UNCHANGED <<mode, builder, hunter, searcher, order, order2, consumed,
                   detections, detections2, evals, yielded, opts, calls, rs, failed,
                   files, fidx>>

\* for res in searcher.search(file)?.iter() { ... }: one call of next()
\* and the body of the loop on the item it returns.
MainSearchNext ==
    /\ mode = "search"
    /\ pc = "built"
    /\ file # None
    /\ LET n == HitsIterNext(searcher, file[1].records, cursor)
       IN  /\ cursor' = n.cursor
           /\ consumed' =
                consumed \o [i \in 1..(n.cursor - cursor) |->
                                [file |-> fidx, pos |-> cursor + i]]
           /\ IF n.flow = "panic"
              THEN /\ ret' = Panic
                   /\ pc' = "done"
                   /\ UNCHANGED <<file, fidx, yielded>>
              ELSE IF n.out = None
              THEN /\ file' = None
                   /\ fidx' = fidx + 1
                   /\ UNCHANGED <<ret, pc, yielded>>
              ELSE IF n.out[1].k = "ok"
              THEN /\ yielded' = Emit(yielded, Printed(n.out[1], fidx))
                   /\ UNCHANGED <<ret, pc, file, fidx>>
              ELSE IF opts.skip_errors
              THEN UNCHANGED <<ret, pc, file, fidx, yielded>>
              ELSE /\ ret' = Err(<<"Failed to search file... - ">>
                                 \o n.out[1].e)
                   /\ pc' = "done"
                   /\ UNCHANGED <<file, fidx, yielded>>
    /\ UNCHANGED <<mode, builder, hunter, searcher, order, order2,
                   detections, detections2, ret2, evals, opts, calls, rs, failed,
                   files>>

\* The files are done: the count of the hits is printed.
MainSearchPrint ==
    /\ mode = "search"
    /\ pc = "built"
    /\ file = None
    /\ fidx > Len(files)
    /\ ret' = Ok
    /\ pc' = "done"
    /\ UNCHANGED <<mode, builder, hunter, searcher, order, order2, file,
                   consumed, detections, detections2, ret2, evals, yielded,
                   opts, calls, rs, failed, files, fidx, cursor>>

MainNext ==
    \/ MainLoadRules
    \/ MainHunterBuild
    \/ MainGetFiles
    \/ MainHuntFile
    \/ MainHuntPrint
    \/ MainSearcherBuild
    \/ MainSearchOpen
    \/ MainSearchNext
    \/ MainSearchPrint

MainSpec == MainInit /\ [][MainNext]_vars

(***************************************************************************)
(* One Hunter, several calls of Hunter::hunt.                              *)
(***************************************************************************)
\* Most calls of hunt on one Hunter.
MaxCalls == 3

LogFiles == {FileA, FileB, FileC, FileP, FileD}

ReuseInit ==
    /\ Init
    /\ mode = "hunt"

\* hunter.hunt(file): the call and what it returned are put on record; a
\* panic ends the process.
HuntCall ==
    /\ mode = "hunt"
    /\ pc = "idle"
    /\ Len(calls) < MaxCalls
    /\ \E f \in LogFiles :
        /\ calls' = Append(calls,
                           [file |-> f.path,
                            ret |-> HuntFile(hunter, order, f).ret,
                            detections |->
                                HuntFile(hunter, order, f).detections])
        /\ pc' = IF HuntFile(hunter, order, f).ret.k = "panic"
                 THEN "done" ELSE "idle"
    /\ UNCHANGED <<mainvars, mode, builder, hunter, searcher, order, order2,
                   file, consumed, detections, detections2, ret, ret2, evals,
                   yielded>>

ReuseNext ==
    \/ HunterBuild
    \/ HuntCall

ReuseSpec == ReuseInit /\ [][ReuseNext]_vars

(***************************************************************************)
(* The properties.                                                         *)
(***************************************************************************)
Range(seq) == {seq[i] : i \in 1..Len(seq)}

\* The positions of the documents that reached the dispatch of hunt.
DispatchedAt == {p \in 1..Len(consumed) : Dispatched(hunter, consumed[p])}

\* The Detections pushed for the document at p under the mapping named.
DetectionsAt(p, mapping) ==
    {i \in 1..Len(detections) :
        detections[i].pos = p /\ detections[i].mapping = mapping}

\* t lies strictly inside the window; an unset bound is no limit.
InWindow(from, to, t) ==
    (from = None \/ from[1] < t) /\ (to = None \/ t < to[1])

\* The clause as a conjunction: every pair resolves and compares equal.
ClauseSat(data, filter) ==
    \A k \in DOMAIN filter :
        /\ FilterLookup(data, k) # None
        /\ Compare(FilterLookup(data, k)[1], filter[k])

GroupSat(data, group) ==
    \E j \in 1..Len(group.filters) : ClauseSat(data, group.filters[j])

\* The records with a creation timestamp among those read so far.
TimedAt ==
    {p \in 1..Len(consumed) :
        consumed[p].kind = "ok" /\ Created(consumed[p].data).k = "ok"}

TimeOf(p) == Created(consumed[p].data).t

\* C1: in Hunter.hunt and in the Searcher iterator, a record whose
\* timestamp equals from or to, or lies outside them, never appears in the
\* result, and a record strictly between the bounds is not rejected by the
\* time gate: it appears whenever the remaining stages let it through.
C1_TimeWindowExclusive ==
    /\ mode = "hunt" =>
        \A p \in TimedAt :
            IF InWindow(hunter.from, hunter.to, TimeOf(p))
            THEN (\E r \in 1..Len(hunter.rules) :
                      RuleMatches(hunter.rules[r],
                          Find(consumed[p].data, hunter.rules[r].field)))
                  /\ hunter.mappings = <<>>
                  => DetectionsAt(p, None) # {}
            ELSE \A i \in 1..Len(detections) : detections[i].pos # p
    /\ mode = "search" =>
        \A p \in TimedAt :
            IF InWindow(searcher.from, searcher.to, TimeOf(p))
            THEN ((searcher.event_id = None
                   \/ ~EventIdDiffers(EventIdOf(consumed[p].data),
                                      searcher.event_id[1]))
                  /\ Matches(consumed[p].text, searcher.regex,
                             searcher.pattern, searcher.ignore_case))
                  => \E i \in 1..Len(yielded) :
                        yielded[i].k = "ok" /\ yielded[i].pos = p
            ELSE \A i \in 1..Len(yielded) : yielded[i].pos # p

C1_Witness ==
    /\ mode = "hunt"
    /\ hunter.from = Some(1)
    /\ hunter.to = Some(3)
    /\ Len(consumed) = 2
    /\ TimedAt = {1, 2}
    /\ TimeOf(1) = 1
    /\ TimeOf(2) = 2
    /\ Len(detections) = 1
    /\ detections[1].pos = 2

\* C2: a document that matches no filter clause of a group, a group without
\* clauses included, gets no Hit of that group and no rule predicate is
\* evaluated for the group.
C2_UnmatchedGroupSilent ==
    mode = "hunt" =>
        \A p \in DispatchedAt :
            \A m \in 1..Len(hunter.mappings) :
                \A g \in 1..Len(hunter.mappings[m].groups) :
                    LET mapping == hunter.mappings[m]
                        group == mapping.groups[g]
                    IN  ~GroupSat(consumed[p].data, group) =>
                          /\ \A i \in DetectionsAt(p, Some(mapping.name)) :
                                \A hit \in Range(detections[i].hits) :
                                    hit.group # Some(group.name)
                          /\ \A r \in 1..Len(hunter.rules) :
                                <<p, m, g, r>> \notin evals

C2_Witness ==
    /\ mode = "hunt"
    /\ \E p \in DispatchedAt :
        \E m \in 1..Len(hunter.mappings) :
            \E g, g2 \in 1..Len(hunter.mappings[m].groups) :
                LET mapping == hunter.mappings[m]
                    group == mapping.groups[g]
                IN  /\ group.filters = <<>>
                    /\ \E r \in 1..Len(hunter.rules) :
                          /\ hunter.rules[r].tag \notin mapping.exclusions
                          /\ RuleMatches(hunter.rules[r],
                                 WrapperFind(group.fields, consumed[p].data,
                                             hunter.rules[r].field))
                    /\ \E r \in 1..Len(hunter.rules) : <<p, m, g2, r>> \in evals
                    /\ DetectionsAt(p, Some(mapping.name)) # {}

\* C3 (as claimed): a clause with N >= 0 equality tests matches iff all N
\* pairs resolve and compare equal by string representation, whatever the
\* order of the visit, and a group is matched, so that its rules are
\* evaluated, iff at least one of its clauses matches.
C3_ClauseIsConjunction ==
    mode = "hunt" =>
        \A p \in DispatchedAt :
            \A m \in 1..Len(hunter.mappings) :
                \A g \in 1..Len(hunter.mappings[m].groups) :
                    LET mapping == hunter.mappings[m]
                        group == mapping.groups[g]
                    IN  (mapping.kind = "evtx"
                         /\ GroupEvals(hunter.rules, mapping) # {}) =>
                          /\ \A j \in 1..Len(group.filters) :
                                FilterPairs(consumed[p].data, group.filters[j],
                                            order[m][g][j], 1, FALSE)
                                  <=> ClauseSat(consumed[p].data,
                                                group.filters[j])
                          /\ (\E r \in 1..Len(hunter.rules) :
                                  <<p, m, g, r>> \in evals)
                               <=> GroupSat(consumed[p].data, group)

\* C4 (as claimed): the scenario of the specification.  One mapping with
\* one group, filter [{EventID: 4624}], alias EventID -> System.EventID,
\* one rule User == "SYSTEM": the record with EventID 4624 and User SYSTEM
\* gives one Detection with one Hit, the record with EventID 4625 none.
C4_ScenarioAsStated ==
    (/\ mode = "hunt"
     /\ hunter.mappings = <<MScenario>>
     /\ hunter.rules = <<RSystem>>
     /\ ret = Ok
     /\ Len(consumed) = 1) =>
        /\ consumed[1] = Record(At(DScenario4624, 1), ExpText) =>
              Len(detections) = 1 /\ Len(detections[1].hits) = 1
        /\ consumed[1] = Record(At(DScenario4625, 1), ExpText) =>
              detections = <<>>

\* C4 (amended): the same scenario with the alias table also mapping
\* User -> User, the records holding EventID and User at those paths.
C4_ScenarioWithUserAlias ==
    (/\ mode = "hunt"
     /\ hunter.mappings = <<MScenarioUser>>
     /\ hunter.rules = <<RSystem>>
     /\ ret = Ok
     /\ Len(consumed) = 1) =>
        /\ consumed[1] = Record(At(DScenario4624, 1), ExpText) =>
              /\ Len(detections) = 1
              /\ detections[1].hits = <<Hit("system_user", Some("scenario"))>>
        /\ consumed[1] = Record(At(DScenario4625, 1), ExpText) =>
              detections = <<>>

C4_Witness ==
    /\ mode = "hunt"
    /\ hunter.mappings = <<MScenarioUser>>
    /\ ret = Ok
    /\ consumed = <<Record(At(DScenario4624, 1), ExpText)>>
    /\ Len(detections) = 1

\* The rules a matched group tags a document with: not excluded by the
\* mapping, the rule's field aliased by the group, and the aliased path
\* holding the rule's value.
TagsByAlias(data, mapping, group) ==
    {r \in 1..Len(hunter.rules) :
        /\ hunter.rules[r].tag \notin mapping.exclusions
        /\ hunter.rules[r].field \in DOMAIN group.fields
        /\ RuleMatches(hunter.rules[r],
                       Find(data, group.fields[hunter.rules[r].field]))}

\* The first path of a list that resolves in the record, None if none does.
FirstResolved(data, paths) ==
    IF \E i \in 1..Len(paths) : Find(data, paths[i]) # None
    THEN Find(data, paths[CHOOSE i \in 1..Len(paths) :
                        /\ Find(data, paths[i]) # None
                        /\ \A j \in 1..(i - 1) : Find(data, paths[j]) = None])
    ELSE None

\* The alias list [A, B] of the logical field User: A is the path the
\* group's alias table holds, B the other user path of the records.
UserAliases(group) ==
    <<group.fields["User"],
      IF group.fields["User"] = TUSER THEN SUSER ELSE TUSER>>

\* The Hits of group g of mapping m for the document at p.
HitsOf(p, m, g) ==
    {hit \in UNION {Range(detections[i].hits) :
                      i \in DetectionsAt(p, Some(hunter.mappings[m].name))} :
        hit.group = Some(hunter.mappings[m].groups[g].name)}

\* The (document, mapping, group) triples the gate let through.
Gated == {<<e[1], e[2], e[3]>> : e \in {e \in evals : e[2] > 0}}

C6_ExclusionsScoped ==
    mode = "hunt" =>
        /\ \A i \in 1..Len(detections) :
              \A m \in 1..Len(hunter.mappings) :
                  detections[i].mapping = Some(hunter.mappings[m].name) =>
                      \A hit \in Range(detections[i].hits) :
                          hit.tag \notin hunter.mappings[m].exclusions
        /\ \A x \in Gated :
              LET mapping == hunter.mappings[x[2]]
                  group == mapping.groups[x[3]]
              IN  \A r \in 1..Len(hunter.rules) :
                      (/\ \E m1 \in 1..Len(hunter.mappings) :
                             hunter.rules[r].tag
                                 \in hunter.mappings[m1].exclusions
                       /\ hunter.rules[r].tag \notin mapping.exclusions
                       /\ RuleMatches(hunter.rules[r],
                              WrapperFind(group.fields, consumed[x[1]].data,
                                          hunter.rules[r].field))) =>
                          Hit(hunter.rules[r].tag, Some(group.name))
                              \in HitsOf(x[1], x[2], x[3])

C6_Witness ==
    /\ mode = "hunt"
    /\ \E i, j \in 1..Len(detections) :
        /\ detections[i].pos = detections[j].pos
        /\ detections[i].mapping = Some("first")
        /\ detections[j].mapping = Some("second")
        /\ "system_user" \in MFirst.exclusions
        /\ \E hit \in Range(detections[j].hits) : hit.tag = "system_user"

\* The (group, rule) combinations of mapping m that tag the document at p:
\* the group matched, the rule not excluded, its predicate true on the view.
Combinations(p, m) ==
    {<<e[3], e[4]>> :
        e \in {e \in evals :
                 /\ e[1] = p
                 /\ e[2] = m
                 /\ m > 0
                 /\ RuleMatches(hunter.rules[e[4]],
                        WrapperFind(hunter.mappings[m].groups[e[3]].fields,
                                    consumed[p].data,
                                    hunter.rules[e[4]].field))}}

\* The rules that tag the document at p in ungated mode.
UngatedCombinations(p) ==
    {r \in 1..Len(hunter.rules) :
        RuleMatches(hunter.rules[r],
                    Find(consumed[p].data, hunter.rules[r].field))}

\* C7: every Detection has hits; there is at most one Detection per
\* (record, mapping) pair, per record in ungated mode; and it holds one Hit
\* for each (matched group, non-excluded rule whose predicate holds)
\* combination of that pair.
C7_OneDetectionPerPair ==
    mode = "hunt" =>
        /\ \A i \in 1..Len(detections) : detections[i].hits # <<>>
        /\ \A i, j \in 1..Len(detections) :
              (detections[i].pos = detections[j].pos
               /\ detections[i].mapping = detections[j].mapping) => i = j
        /\ \A p \in DispatchedAt :
              /\ \A m \in 1..Len(hunter.mappings) :
                    LET name == Some(hunter.mappings[m].name)
                        want == Combinations(p, m)
                    IN  IF want = {} THEN DetectionsAt(p, name) = {}
                        ELSE \E i \in DetectionsAt(p, name) :
                                /\ Len(detections[i].hits) = Cardinality(want)
                                /\ \A c \in want :
                                      Hit(hunter.rules[c[2]].tag,
                                          Some(hunter.mappings[m]
                                                 .groups[c[1]].name))
                                          \in Range(detections[i].hits)
              /\ hunter.mappings = <<>> =>
                    LET want == UngatedCombinations(p)
                    IN  IF want = {} THEN DetectionsAt(p, None) = {}
                        ELSE \E i \in DetectionsAt(p, None) :
                                /\ Len(detections[i].hits) = Cardinality(want)
                                /\ \A r \in want :
                                      Hit(hunter.rules[r].tag, None)
                                          \in Range(detections[i].hits)

C7_Witness ==
    /\ mode = "hunt"
    /\ ret = Ok
    /\ \E i, j \in 1..Len(detections) :
        /\ detections[i].pos = detections[j].pos
        /\ detections[i].mapping # detections[j].mapping
        /\ Len(detections[j].hits) >= 3
        /\ \E a, b \in Range(detections[j].hits) : a.group # b.group

MappingIndex(name) ==
    CHOOSE m \in 1..Len(hunter.mappings) : Some(hunter.mappings[m].name) = name

GroupIndex(m, name) ==
    CHOOSE g \in 1..Len(hunter.mappings[m].groups) :
        Some(hunter.mappings[m].groups[g].name) = name

RuleIndex(tag) == CHOOSE r \in 1..Len(hunter.rules) : hunter.rules[r].tag = tag

\* C8: the Detections are ordered by record position, then by mapping
\* declaration order; the hits of a Detection by group declaration order,
\* then by rule declaration order.
C8_OutputOrder ==
    mode = "hunt" =>
        /\ \A i, j \in 1..Len(detections) :
              i < j =>
                \/ detections[i].pos < detections[j].pos
                \/ /\ detections[i].pos = detections[j].pos
                   /\ detections[i].mapping # None
                   /\ detections[j].mapping # None
                   /\ MappingIndex(detections[i].mapping)
                        < MappingIndex(detections[j].mapping)
        /\ \A i \in 1..Len(detections) :
              \A a, b \in 1..Len(detections[i].hits) :
                  a < b =>
                    LET ha == detections[i].hits[a]
                        hb == detections[i].hits[b]
                    IN  IF detections[i].mapping = None
                        THEN RuleIndex(ha.tag) < RuleIndex(hb.tag)
                        ELSE LET m == MappingIndex(detections[i].mapping)
                                 ga == GroupIndex(m, ha.group)
                                 gb == GroupIndex(m, hb.group)
                             IN  \/ ga < gb
                                 \/ /\ ga = gb
                                    /\ RuleIndex(ha.tag) < RuleIndex(hb.tag)

C8_Witness ==
    /\ mode = "hunt"
    /\ ret = Ok
    /\ Len(detections) = 4
    /\ detections[1].pos = 1
    /\ detections[2].pos = 1
    /\ detections[3].pos = 2
    /\ detections[1].mapping = Some("first")
    /\ detections[2].mapping = Some("second")
    /\ \E a, b \in 1..Len(detections[2].hits) :
        /\ a < b
        /\ detections[2].hits[a].group = detections[2].hits[b].group
    /\ \E a, b \in 1..Len(detections[2].hits) :
        detections[2].hits[a].group # detections[2].hits[b].group

\* C9: two executions of hunt over the same records with the same hunter
\* end the same way, with the same Detections in the same order, whatever
\* the iteration orders of the filter clauses.
C9_Deterministic ==
    mode = "hunt" => ret = ret2 /\ detections = detections2

C9_Witness ==
    /\ mode = "hunt"
    /\ order # order2
    /\ ret = Ok
    /\ ret2 = Ok
    /\ consumed = <<Record(At(DService, 1), ExpText),
                    Record(At(DLogon, 1), SvcText)>>
    /\ \E i \in 1..Len(detections) :
        /\ detections[i].pos = 2
        /\ \E hit \in Range(detections[i].hits) : hit.group = Some("logon")
    /\ \A i \in 1..Len(detections) :
        detections[i].pos = 1 =>
            \A hit \in Range(detections[i].hits) : hit.group # Some("logon")

\* C10 (as claimed): when the file cannot be opened, hunt succeeds with no
\* Detections if skip_errors is set, and otherwise fails with an error that
\* carries the path of the file and the underlying cause.
C10_OpenFailure ==
    (/\ mode = "hunt"
     /\ pc = "done"
     /\ file # None
     /\ ReaderLoad(file[1]).k = "err") =>
        IF hunter.skip_errors
        THEN ret = Ok /\ detections = <<>>
        ELSE /\ ret.k = "err"
             /\ file[1].path \in Range(ret.e)
             /\ Range(ReaderLoad(file[1]).e) \subseteq Range(ret.e)

\* The records read so far that decoded and whose creation timestamp could
\* not be derived: the field is malformed, not a string, or absent.
Untimed ==
    {p \in 1..Len(consumed) :
        consumed[p].kind = "ok" /\ Created(consumed[p].data).k # "ok"}

CorruptAt == {p \in 1..Len(consumed) : consumed[p].kind = "corrupt"}

\* TRUE when some rule holds on the raw record at p.
RawRuleHolds(p) ==
    \E r \in 1..Len(hunter.rules) :
        RuleMatches(hunter.rules[r],
                    Find(consumed[p].data, hunter.rules[r].field))

\* C11 (as claimed): in Hunter.hunt a record that fails to decode is skipped
\* whether skip_errors is set or not: hunt does not fail on it, and the
\* records after it are processed and their Detections returned.
C11_CorruptSkipped ==
    (/\ mode = "hunt"
     /\ CorruptAt # {}
     /\ Untimed = {}) =>
        /\ ret.k \in {"running", "ok"}
        /\ \A p \in DispatchedAt :
            (hunter.mappings = <<>> /\ RawRuleHolds(p)) =>
                DetectionsAt(p, None) # {}

\* C12 (as claimed): a record whose creation timestamp cannot be parsed is
\* skipped when skip_errors is set (hunt goes on and returns Ok, the
\* Searcher yields no error item and goes on), and with skip_errors unset
\* hunt returns an error and the Searcher yields an error item for it.
C12_TimestampHonoursSkipErrors ==
    /\ (mode = "hunt" /\ Untimed # {}) =>
        IF hunter.skip_errors
        THEN ret.k \in {"running", "ok"}
        ELSE ret.k = "err"
    /\ (mode = "search" /\ Untimed # {}) =>
        IF searcher.skip_errors
        THEN /\ ret.k \in {"running", "ok"}
             /\ \A i \in 1..Len(yielded) : yielded[i].k # "err"
        ELSE /\ ret.k \in {"running", "ok"}
             /\ \A p \in Untimed :
                 \E i \in 1..Len(yielded) :
                     yielded[i].k = "err" /\ yielded[i].pos = p

\* C13 (as claimed): created() returns a timestamp or an error for every
\* record, also when the SystemTime field is absent, not a string or
\* malformed; it never aborts the stream or the process.
C13_CreatedNeverAborts ==
    /\ \A p \in 1..Len(consumed) :
        consumed[p].kind = "ok" =>
            Created(consumed[p].data).k \in {"ok", "err"}
    /\ ret.k # "panic"
    /\ ret2.k # "panic"

\* The rules whose predicate holds on the raw record.
RawTags(data) ==
    {r \in 1..Len(hunter.rules) :
        RuleMatches(hunter.rules[r], Find(data, hunter.rules[r].field))}

\* C17: with no mappings configured every record that passes the time gate
\* is matched ungated: every rule is evaluated against the raw record, with
\* no group gate, no alias and no exclusion; its Detection, if any rule
\* holds, has no mapping and its Hits no group.  With mappings configured
\* every Detection names one of them and every Hit a group of that mapping.
C17_UngatedMode ==
    mode = "hunt" =>
        IF hunter.mappings = <<>>
        THEN /\ \A p \in DispatchedAt :
                 /\ {e \in evals : e[1] = p} =
                        {<<p, 0, 0, r>> : r \in 1..Len(hunter.rules)}
                 /\ IF RawTags(consumed[p].data) = {}
                    THEN \A i \in 1..Len(detections) : detections[i].pos # p
                    ELSE \E i \in 1..Len(detections) :
                           /\ detections[i].pos = p
                           /\ \A j \in 1..Len(detections) :
                               detections[j].pos = p => j = i
                           /\ Range(detections[i].hits) =
                                {Hit(hunter.rules[r].tag, None) :
                                    r \in RawTags(consumed[p].data)}
                           /\ Len(detections[i].hits) =
                                Cardinality(RawTags(consumed[p].data))
             /\ \A i \in 1..Len(detections) :
                 /\ detections[i].mapping = None
                 /\ \A hit \in Range(detections[i].hits) : hit.group = None
        ELSE \A i \in 1..Len(detections) :
               /\ detections[i].mapping # None
               /\ \E m \in 1..Len(hunter.mappings) :
                   /\ hunter.mappings[m].name = detections[i].mapping[1]
                   /\ \A hit \in Range(detections[i].hits) :
                       /\ hit.group # None
                       /\ \E g \in 1..Len(hunter.mappings[m].groups) :
                           hunter.mappings[m].groups[g].name = hit.group[1]

\* An ungated hunt is over: one record was tagged by a rule on a raw path,
\* another passed the gate and no rule held on it.
C17_Witness ==
    /\ mode = "hunt"
    /\ hunter.mappings = <<>>
    /\ ret = Ok
    /\ DispatchedAt = {1, 2}
    /\ RawTags(consumed[1].data) # {}
    /\ RawTags(consumed[2].data) = {}
    /\ Len(detections) = 1
    /\ detections[1].mapping = None

\* The Hits of group g in the Detection of the document at p under mapping
\* m, in the order they have there.
HitSeqOf(p, m, g) ==
    LET at == DetectionsAt(p, Some(hunter.mappings[m].name))
    IN  IF at = {} THEN <<>>
        ELSE SelectSeq(detections[CHOOSE i \in at : TRUE].hits,
                       LAMBDA hit :
                           hit.group =
                               Some(hunter.mappings[m].groups[g].name))

\* The Hits the claim expects: one per rule, in declaration order, that is
\* not excluded and holds on the remapped view.
ExpectedHits(data, mapping, group) ==
    LET idx == SelectSeq([r \in 1..Len(hunter.rules) |-> r],
                         LAMBDA r : r \in TagsByAlias(data, mapping, group))
    IN  [i \in 1..Len(idx) |->
            Hit(hunter.rules[idx[i]].tag, Some(group.name))]

\* C18: for a record gated into group G of mapping M, the Hits produced for
\* G are the rules, in declaration order, whose tag is not excluded by M and
\* whose predicate holds on the remapped view: one Hit for every such rule,
\* not only for the first.
C18_AllMatchingRules ==
    mode = "hunt" =>
        \A x \in Gated :
            HitSeqOf(x[1], x[2], x[3]) =
                ExpectedHits(consumed[x[1]].data, hunter.mappings[x[2]],
                             hunter.mappings[x[2]].groups[x[3]])

\* One gated group got a Hit from each of two rules; in a mapping that
\* excludes a rule, a group got the Hit of the other rule only.
C18_Witness ==
    /\ mode = "hunt"
    /\ \E x, y \in Gated :
        /\ Len(HitSeqOf(x[1], x[2], x[3])) = 2
        /\ hunter.mappings[y[2]].exclusions # {}
        /\ Len(HitSeqOf(y[1], y[2], y[3])) = 1
        /\ \E r \in 1..Len(hunter.rules) :
            /\ hunter.rules[r].tag \in hunter.mappings[y[2]].exclusions
            /\ RuleMatches(hunter.rules[r],
                   WrapperFind(hunter.mappings[y[2]].groups[y[3]].fields,
                               consumed[y[1]].data, hunter.rules[r].field))

\* TRUE when the record at p passes every configured filter of the Searcher.
PassesFilters(p) ==
    /\ consumed[p].kind = "ok"
    /\ Created(consumed[p].data).k = "ok"
    /\ InWindow(searcher.from, searcher.to, TimeOf(p))
    /\ searcher.event_id # None =>
        EventIdOf(consumed[p].data) = Some(JInt(searcher.event_id[1]))
    /\ IF searcher.regex # None
       THEN IsMatch(searcher.regex[1], consumed[p].text)
       ELSE /\ searcher.pattern # None
            /\ IF searcher.ignore_case
               THEN Contains(ToLowercase(consumed[p].text),
                             ToLowercase(searcher.pattern[1]))
               ELSE Contains(consumed[p].text, searcher.pattern[1])

\* C19: the Searcher yields a record iff it decodes, its timestamp parses,
\* it lies strictly inside the time window, its event identifier equals the
\* configured one if any, and the text filter matches its serialised form;
\* a filter that is not configured restricts nothing, a corrupt record is
\* skipped whatever skip_errors is, and with neither pattern nor regex no
\* record is yielded.
C19_SearchFilters ==
    mode = "search" =>
        /\ \A p \in 1..Len(consumed) :
            PassesFilters(p) <=>
                \E i \in 1..Len(yielded) :
                    /\ yielded[i].k = "ok"
                    /\ yielded[i].pos = p
                    /\ yielded[i].data = consumed[p].data
        /\ (CorruptAt # {} /\ Untimed = {}) => ret.k \in {"running", "ok"}
        /\ (searcher.pattern = None /\ searcher.regex = None) =>
            \A i \in 1..Len(yielded) : yielded[i].k # "ok"

\* A search with an event identifier and a pattern is over: a corrupt
\* record was passed over and a record passing every filter was yielded.
C19_Witness ==
    /\ mode = "search"
    /\ ret = Ok
    /\ searcher.event_id # None
    /\ searcher.pattern # None
    /\ searcher.regex = None
    /\ CorruptAt # {}
    /\ \E p \in 1..Len(consumed) : PassesFilters(p)
    /\ Len(yielded) = 1
    /\ yielded[1].k = "ok"

\* C14 (as claimed): SearcherBuilder.build returns an error when neither a
\* pattern nor a regular expression was supplied, and a Searcher when at
\* least one of them was.
C14_BuildRequiresTextFilter ==
    (mode = "search" /\ pc # "new") =>
        IF builder.pattern = None /\ builder.regex = None
        THEN pc = "done" /\ ret.k = "err" /\ searcher = NoSearcher
        ELSE /\ searcher.pattern = builder.pattern
             /\ searcher.regex = builder.regex
             /\ ret.k # "err"

\* TRUE when a mapping file of the command line does not load.
BadMappingGiven ==
    /\ opts.mapping # None
    /\ \E i \in 1..Len(opts.mapping[1]) : opts.mapping[1][i].k # "ok"

\* C15: a mapping file that is missing, unreadable or malformed makes
\* HunterBuilder.build fail whatever skip_errors is, and in the hunt command
\* before any log file is enumerated or opened: after the failure there is
\* no Hunter, no file and no Detection.
C15_MappingConfigFatal ==
    (mode = "hunt" /\ BadMappingGiven) =>
        /\ hunter = NoHunter
        /\ files = <<>>
        /\ file = None
        /\ detections = <<>>
        /\ pc \in {"start", "rules", "done"}
        /\ pc = "done" => ret.k = "err"

\* The hunt command was run with skip_errors, rules that load and a mapping
\* file that does not: the build was reached and the run is over.
C15_Witness ==
    /\ mode = "hunt"
    /\ BadMappingGiven
    /\ opts.skip_errors
    /\ failed = 0
    /\ builder.rules = Some(rs)
    /\ builder.skip_errors = Some(TRUE)
    /\ pc = "done"
    /\ ret.k = "err"

\* C16 (as claimed): if a rule file fails to load, the hunt command aborts
\* before any log file is opened: it never goes on, and never completes,
\* with that rule missing.
C16_RuleConfigFatal ==
    (/\ mode = "hunt"
     /\ \E i \in 1..Len(opts.rules) : opts.rules[i].k # "ok") =>
        /\ hunter = NoHunter
        /\ file = None
        /\ pc \in {"start", "done"}
        /\ pc = "done" => ret.k = "err"

\* (file, position) pairs in the order of the files and of their records.
Before(a, b) ==
    a.file < b.file \/ (a.file = b.file /\ a.pos < b.pos)

\* C20: what the search command emits is finite and forward-only: the hits
\* of a file are a subsequence of its records in file order, every record
\* is consumed once and yielded at most once, the iterator of a file ends
\* when its records are exhausted, and the hits of one file all come
\* before those of the next, in the order of the files, not sorted by time.
C20_SearchForwardOnly ==
    mode = "search" =>
        /\ \A i, j \in 1..Len(yielded) :
            i < j => Before(yielded[i], yielded[j])
        /\ \A i \in 1..Len(yielded) :
            /\ yielded[i].file \in 1..Len(files)
            /\ yielded[i].pos \in 1..Len(files[yielded[i].file].records)
            /\ yielded[i].data =
                 files[yielded[i].file].records[yielded[i].pos].data
            /\ [file |-> yielded[i].file, pos |-> yielded[i].pos]
                 \in Range(consumed)
        /\ \A i, j \in 1..Len(consumed) :
            i < j => Before(consumed[i], consumed[j])
        /\ \A i \in 1..Len(consumed) :
            consumed[i].pos \in 1..Len(files[consumed[i].file].records)
        /\ \A f \in 1..Len(files) :
            (f < fidx \/ (pc = "done" /\ ret = Ok)) =>
                \A p \in 1..Len(files[f].records) :
                    [file |-> f, pos |-> p] \in Range(consumed)

\* A search of two files is over: hits of both were emitted, a later hit
\* older than an earlier one, and records were passed over.
C20_Witness ==
    /\ mode = "search"
    /\ pc = "done"
    /\ ret = Ok
    /\ Len(files) = 2
    /\ \E i, j \in 1..Len(yielded) :
        /\ i < j
        /\ yielded[i].file = 1
        /\ yielded[j].file = 2
        /\ Created(yielded[i].data).t > Created(yielded[j].data).t
    /\ \E i, j \in 1..Len(yielded) :
        /\ i < j
        /\ yielded[i].file = yielded[j].file
        /\ Created(yielded[i].data).t > Created(yielded[j].data).t
    /\ Len(yielded) < Len(consumed)

C22_AllOrNothing ==
    mode = "hunt" =>
        /\ \A i \in 1..Len(files) :
            HuntFile(hunter, order, files[i]).ret.k # "ok" =>
                HuntFile(hunter, order, files[i]).detections = <<>>
        /\ file # None =>
            (ret.k \in {"err", "panic"}
             <=> HuntFile(hunter, order, file[1]).ret.k # "ok")
        /\ ret.k # "ok" => yielded = <<>>
        /\ (pc = "done" /\ ret.k = "ok") =>
            yielded = SortByTimestamp(detections2)

\* Without skip_errors a first file was hunted with Detections, the second
\* failed at its second record after its first had produced a Detection:
\* the run is over with the error and nothing rendered.
C22_Witness ==
    /\ mode = "hunt"
    /\ ~hunter.skip_errors
    /\ pc = "done"
    /\ ret.k = "err"
    /\ Len(files) = 2
    /\ fidx = 2
    /\ detections # <<>>
    /\ yielded = <<>>
    /\ HuntLoop(hunter, order, <<files[2].records[1]>>, 1, <<>>).detections
         # <<>>

\* C23: with at least one mapping configured only the mappings of kind
\* "evtx" are dispatched: a mapping of another kind gets no rule evaluated
\* and no Detection, and when no mapping is of kind "evtx" no record gets a
\* Detection: there is no fall back to ungated matching.
C23_KindGate ==
    (mode = "hunt" /\ hunter.mappings # <<>>) =>
        /\ \A i \in 1..Len(detections) :
            /\ detections[i].mapping # None
            /\ \E m \in 1..Len(hunter.mappings) :
                /\ hunter.mappings[m].name = detections[i].mapping[1]
                /\ hunter.mappings[m].kind = "evtx"
        /\ \A e \in evals :
            /\ e[2] \in 1..Len(hunter.mappings)
            /\ hunter.mappings[e[2]].kind = "evtx"
        /\ (\A m \in 1..Len(hunter.mappings) :
                hunter.mappings[m].kind # "evtx") =>
            detections = <<>> /\ evals = {}

\* The only mapping is of another kind; a record reached the dispatch that
\* its group would let through and that a rule holds on as it is: the hunt
\* is over with no Detection.
C23_Witness ==
    /\ mode = "hunt"
    /\ hunter.mappings # <<>>
    /\ \A m \in 1..Len(hunter.mappings) : hunter.mappings[m].kind # "evtx"
    /\ ret = Ok
    /\ \E p \in DispatchedAt :
        /\ RawRuleHolds(p)
        /\ \E g \in 1..Len(hunter.mappings[1].groups) :
            GroupSat(consumed[p].data, hunter.mappings[1].groups[g])
    /\ detections = <<>>

\* The names a lookup in the view of a record may ask for: the logical
\* names of the group, the fields of the rules, the paths of the record.
LookupNames(data, group) ==
    DOMAIN group.fields \cup DOMAIN data
    \cup {hunter.rules[r].field : r \in 1..Len(hunter.rules)}

\* C24: in gated mode the view exposes the logical names of the matched
\* group's alias table and nothing else: a name that is not a key of the
\* table resolves to nothing, also when the raw record has a field at that
\* very path, and a declared name resolves to what the raw record holds at
\* the aliased path, nothing if the path is absent; the rules hit on what
\* the view resolves.
C24_ViewExposesDeclaredNames ==
    mode = "hunt" =>
        \A x \in Gated :
            LET mapping == hunter.mappings[x[2]]
                group == mapping.groups[x[3]]
                data == consumed[x[1]].data
            IN  /\ \A name \in LookupNames(data, group) :
                    WrapperFind(group.fields, data, name) =
                        IF name \in DOMAIN group.fields
                        THEN IF group.fields[name] \in DOMAIN data
                             THEN Some(data[group.fields[name]])
                             ELSE None
                        ELSE None
                /\ \A r \in 1..Len(hunter.rules) :
                    (hunter.rules[r].field \notin DOMAIN group.fields) =>
                        Hit(hunter.rules[r].tag, Some(group.name))
                            \notin HitsOf(x[1], x[2], x[3])

\* A record was gated into a group whose table does not declare the field
\* of a rule: the record has a field at the path of that name with the
\* value the rule asks for, a declared name is aliased to a path the record
\* does not have, and there is no Hit.
C24_Witness ==
    /\ mode = "hunt"
    /\ \E x \in Gated :
        LET group == hunter.mappings[x[2]].groups[x[3]]
            data == consumed[x[1]].data
        IN  /\ \E r \in 1..Len(hunter.rules) :
                /\ hunter.rules[r].field \notin DOMAIN group.fields
                /\ RuleMatches(hunter.rules[r],
                               Find(data, hunter.rules[r].field))
            /\ \E name \in DOMAIN group.fields :
                group.fields[name] \notin DOMAIN data
            /\ HitsOf(x[1], x[2], x[3]) = {}
    /\ ret = Ok

\* TRUE when the record at p reaches the text filter of the Searcher: it
\* decodes, its timestamp parses and lies in the window, and its event
\* identifier is the configured one if any.
ReachesTextFilter(p) ==
    /\ consumed[p].kind = "ok"
    /\ Created(consumed[p].data).k = "ok"
    /\ InWindow(searcher.from, searcher.to, TimeOf(p))
    /\ searcher.event_id # None =>
        EventIdOf(consumed[p].data) = Some(JInt(searcher.event_id[1]))

\* TRUE when the record at p was yielded by the search.
YieldedAt(p) ==
    \E i \in 1..Len(yielded) :
        /\ yielded[i].k = "ok"
        /\ yielded[i].pos = p
        /\ yielded[i].data = consumed[p].data

\* TRUE when t occurs in text at some offset, compared character by
\* character.
OccursIn(t, text) ==
    \E k \in 0..Len(text) :
        /\ k + Len(t) <= Len(text)
        /\ \A j \in 1..Len(t) : text[k + j] = t[j]

\* C25: the text filter applies exactly one matcher.  With a regular
\* expression configured, the expression alone decides, whatever the
\* pattern and whatever ignore_case; without one, the pattern decides, as
\* a substring of the serialised record, both lower-cased first when
\* ignore_case is set, so that pattern "sv" with ignore_case matches "Svc"
\* and not "exp" (the scenario's "svchost", "SvcHost.exe" and
\* "explorer.exe" in short).
C25_OneMatcher ==
    mode = "search" =>
        \A p \in 1..Len(consumed) :
            ReachesTextFilter(p) =>
                LET text == consumed[p].text
                IN  /\ searcher.regex # None =>
                        (YieldedAt(p) <=>
                            IF searcher.regex[1].ci
                            THEN OccursIn(ToLowercase(searcher.regex[1].lit),
                                          ToLowercase(text))
                            ELSE OccursIn(searcher.regex[1].lit, text))
                    /\ (searcher.regex = None /\ searcher.pattern # None) =>
                        (YieldedAt(p) <=>
                            IF searcher.ignore_case
                            THEN OccursIn(ToLowercase(searcher.pattern[1]),
                                          ToLowercase(text))
                            ELSE OccursIn(searcher.pattern[1], text))
                    /\ (/\ searcher.regex = None
                        /\ searcher.pattern = Some(<<"s", "v">>)
                        /\ searcher.ignore_case) =>
                        /\ text = SvcText => YieldedAt(p)
                        /\ text = ExpText => ~YieldedAt(p)

\* A search with a regular expression, a pattern and ignore_case is over:
\* a record that the pattern matches without regard to case and the
\* expression does not was passed over, and a record that the expression
\* matches and the pattern does not was yielded.
C25_Witness ==
    /\ mode = "search"
    /\ ret = Ok
    /\ searcher.regex # None
    /\ searcher.pattern # None
    /\ searcher.ignore_case
    /\ \E p, q \in 1..Len(consumed) :
        /\ ReachesTextFilter(p)
        /\ ReachesTextFilter(q)
        /\ OccursIn(ToLowercase(searcher.pattern[1]),
                    ToLowercase(consumed[p].text))
        /\ ~OccursIn(searcher.regex[1].lit, consumed[p].text)
        /\ ~YieldedAt(p)
        /\ ~OccursIn(ToLowercase(searcher.pattern[1]),
                     ToLowercase(consumed[q].text))
        /\ OccursIn(searcher.regex[1].lit, consumed[q].text)
        /\ YieldedAt(q)

====
